---------------------------- MODULE Spec2Model ----------------------------
(***************************************************************************)
(* Model of the paper-trading ledger (trade_local.py) and of the model     *)
(* orchestration of an exchange (exchange.py) of Blankly.                  *)
(*                                                                         *)
(* SpecLedger : init_local_account / trade_local on the process-wide       *)
(*              account dictionary.                                        *)
(* Spec       : Exchange.append_model / start_models / get_model_state /   *)
(*              get_full_state / write_value, one call at a time, each     *)
(*              call advancing statement by statement, with the attached   *)
(*              models and the exchange account changing on their own      *)
(*              in between.                                                *)
(* SpecInterface : Spec with construct_interface among the calls.          *)
(* SpecOrder  : append_model and start_models alone, one call more.        *)
(* SpecConc   : the Exchange methods called by two callers at once.        *)
(* SpecSignal : the construction of a Signal, statement by statement.      *)
(***************************************************************************)
EXTENDS Integers, Sequences, FiniteSets, TLC

(***************************************************************************)
(* Bounds of the model.                                                    *)
(***************************************************************************)
MaxTrades == 2      \* trade_local calls per behaviour
MaxOps    == 3      \* Exchange calls per behaviour
MaxOrderOps == 4    \* append_model / start_models calls per behaviour of SpecOrder
MaxSymbols == 2     \* length of the symbol list of a Signal

(***************************************************************************)
(* Ledger inputs.                                                          *)
(***************************************************************************)
Currencies == {"BTC", "USD", "XLM"}
InitBalances == {0, 5}
Deltas == {-2, 1}
Sides == {"buy", "sell"}

\* A currency pair "BASE-QUOTE" is kept as the two codes around the separator.
CurrencyPairs == Currencies \X Currencies

\* Every dictionary init_local_account can be given over Currencies.
Ledgers == UNION {[ks -> InitBalances] : ks \in SUBSET Currencies}

(***************************************************************************)
(* Exchange inputs.                                                        *)
(***************************************************************************)
CoinIds == {"BTC-USD", "XLM-USD"}
Models == {"m1", "m2"}
ArgVals == {"None", "args1"}
Keys == {"key"}
StateVals == {0, 1}
AssetVals == {0, 1}
Threads == {"main", "other"}
ExchangeTypes == {"coinbase_pro", "binance", "alpaca"}
Outcomes == {"ok", "raise"}

ModelStates == [Keys -> StateVals]

VARIABLES
    account,      \* local_account.account: currency code -> balance
    initKeys,     \* history: the currency codes given to init_local_account
    lastTrade,    \* history: the last trade_local call, its input and outcome
    nTrades,      \* number of trade_local calls so far
    models,       \* Exchange.models: insertion-ordered dict coin_id -> {model, args}
    running,      \* each model's own is_running() flag
    mstate,       \* each model's own key/value state
    assetState,   \* what the exchange reports for the account
    pc,           \* each caller's position in the Exchange method it is in
    frame,        \* each caller's arguments and locals
    trace,        \* history: the calls the current or last Exchange call made
    result,       \* how the last Exchange call of each caller ended
    lastAttach,   \* history: the arguments of the latest append_model per coin
    prevAttach,   \* history: the arguments of the append_model before it
    attachCount,  \* history: append_model calls made with each model
    setupCount,   \* history: setup calls received by each model
    runCount,     \* history: run calls received by each model
    nOps,         \* number of Exchange calls so far
    opLimit,      \* number of Exchange calls a behaviour may make
    firstOrder,   \* history: the coins in the order of their first append_model
    exchangeType, \* Exchange.__type
    Interface,    \* Exchange.Interface: the interface object it holds
    givenInterfaces, \* history: the interface objects handed to setup
    callables,    \* Signal.__callables: which of the four are callable
    symbols,      \* Signal.symbols
    spc,          \* position in Signal.__init__ / Signal.__run
    sidx,         \* symbols evaluated so far
    heap,         \* the result objects: each a value and a reference
    dicts,        \* the dictionaries: each maps symbols to result objects
    raw_results,  \* Signal.raw_results: the dictionary it refers to
    formatted_results, \* Signal.formatted_results: a dictionary or a value
    produced,     \* history: what the evaluator returned for each symbol
    strace,       \* history: the callables called by the construction
    sresult       \* how the construction ended

ledgerVars == <<account, initKeys, lastTrade, nTrades>>

modelVars == <<running, mstate, assetState>>

signalVars == <<callables, symbols, spc, sidx, heap, dicts, raw_results,
                formatted_results, produced, strace, sresult>>

configVars == <<opLimit, exchangeType, Interface>>

exchangeVars == <<models, running, mstate, assetState, pc, frame, trace, result,
                  lastAttach, prevAttach, attachCount, setupCount, runCount, nOps,
                  opLimit, firstOrder, exchangeType, Interface, givenInterfaces>>

vars == <<account, initKeys, lastTrade, nTrades, models, running, mstate,
          assetState, pc, frame, trace, result, lastAttach, prevAttach,
          attachCount, setupCount, runCount, nOps, opLimit, firstOrder,
          exchangeType, Interface, givenInterfaces, callables, symbols, spc,
          sidx, heap, dicts, raw_results, formatted_results, produced, strace,
          sresult>>

(***************************************************************************)
(* utils.get_base_currency / utils.get_quote_currency: the code before     *)
(* and after the separator of the pair.                                    *)
(***************************************************************************)
get_base_currency(currency_pair) == currency_pair[1]

get_quote_currency(currency_pair) == currency_pair[2]

NoTrade ==
    [called |-> FALSE, pair |-> <<"", "">>, base_delta |-> 0, quote_delta |-> 0,
     old |-> [c \in {} |-> 0], raised |-> "none"]

(***************************************************************************)
(* init_local_account(currencies): the dictionary replaces the account.    *)
(***************************************************************************)
init_local_account(currencies) ==
    /\ account' = currencies
    /\ initKeys' = DOMAIN currencies
    /\ lastTrade' = NoTrade
    /\ UNCHANGED <<nTrades, exchangeVars, signalVars>>

(***************************************************************************)
(* trade_local(currency_pair, side, base_delta, quote_delta).              *)
(* account[base] is read first: a missing key raises KeyError before       *)
(* anything is written.  The quote leg runs after the base leg has been    *)
(* written.                                                                *)
(***************************************************************************)
trade_local_swapped(currency_pair, side, base_delta, quote_delta) ==
    LET base == get_base_currency(currency_pair)
        quote == get_quote_currency(currency_pair)
        baseFound == base \in DOMAIN account
        afterBase == IF baseFound
                     THEN [account EXCEPT ![base] = @ + quote_delta]
                     ELSE account
        quoteFound == quote \in DOMAIN afterBase
        afterQuote == IF baseFound /\ quoteFound
                      THEN [afterBase EXCEPT ![quote] = @ + base_delta]
                      ELSE afterBase
    IN  /\ nTrades < MaxTrades
        /\ account' = afterQuote
        /\ lastTrade' = [called |-> TRUE, pair |-> currency_pair,
                         base_delta |-> base_delta, quote_delta |-> quote_delta,
                         old |-> account,
                         raised |-> IF ~baseFound THEN "base"
                                    ELSE IF ~quoteFound THEN "quote" ELSE "none"]
        /\ nTrades' = nTrades + 1
        /\ UNCHANGED <<initKeys, exchangeVars, signalVars>>

trade_local_creating(currency_pair, side, base_delta, quote_delta) ==
    LET base == get_base_currency(currency_pair)
        quote == get_quote_currency(currency_pair)
        Get(acct, c) == IF c \in DOMAIN acct THEN acct[c] ELSE 0
        afterBase == [c \in DOMAIN account \cup {base} |->
                        IF c = base THEN Get(account, c) + base_delta
                        ELSE account[c]]
        afterQuote == [c \in DOMAIN afterBase \cup {quote} |->
                        IF c = quote THEN Get(afterBase, c) + quote_delta
                        ELSE afterBase[c]]
    IN  /\ nTrades < MaxTrades
        /\ account' = afterQuote
        /\ lastTrade' = [called |-> TRUE, pair |-> currency_pair,
                         base_delta |-> base_delta, quote_delta |-> quote_delta,
                         old |-> account, raised |-> "none"]
        /\ nTrades' = nTrades + 1
        /\ UNCHANGED <<initKeys, exchangeVars, signalVars>>

trade_local(currency_pair, side, base_delta, quote_delta) ==
    LET base == get_base_currency(currency_pair)
        quote == get_quote_currency(currency_pair)
        baseFound == base \in DOMAIN account
        afterBase == IF baseFound
                     THEN [account EXCEPT ![base] = @ + base_delta]
                     ELSE account
        quoteFound == quote \in DOMAIN afterBase
        afterQuote == IF baseFound /\ quoteFound
                      THEN [afterBase EXCEPT ![quote] = @ + quote_delta]
                      ELSE afterBase
    IN  /\ nTrades < MaxTrades
        /\ account' = afterQuote
        /\ lastTrade' = [called |-> TRUE, pair |-> currency_pair,
                         base_delta |-> base_delta, quote_delta |-> quote_delta,
                         old |-> account,
                         raised |-> IF ~baseFound THEN "base"
                                    ELSE IF ~quoteFound THEN "quote" ELSE "none"]
        /\ nTrades' = nTrades + 1
        /\ UNCHANGED <<initKeys, exchangeVars, signalVars>>

TradeLocal ==
    \E p \in CurrencyPairs, s \in Sides, bd \in Deltas, qd \in Deltas :
        trade_local(p, s, bd, qd)

InitLocalAccount ==
    \E currencies \in Ledgers : init_local_account(currencies)

(***************************************************************************)
(* Exchange.models is a Python dict: keys keep the order of their first    *)
(* insertion, assigning to an existing key replaces its value in place.    *)
(***************************************************************************)
HasKey(reg, coin) == \E i \in 1..Len(reg) : reg[i].coin = coin

IndexOf(reg, coin) == CHOOSE i \in 1..Len(reg) : reg[i].coin = coin

\* self.models[coin]
GetItem(reg, coin) == reg[IndexOf(reg, coin)]

\* self.models[coin_id] = {"model": model, "args": args}
SetItemAppending(reg, coin, model, args) ==
    Append(reg, [coin |-> coin, model |-> model, args |-> args])

\* a variant that moves a key assigned again to the end
SetItemMovingToEnd(reg, coin, model, args) ==
    LET others == SelectSeq(reg, LAMBDA e : e.coin # coin)
    IN  Append(others, [coin |-> coin, model |-> model, args |-> args])

SetItemKeepingFirst(reg, coin, model, args) ==
    IF HasKey(reg, coin)
    THEN reg
    ELSE Append(reg, [coin |-> coin, model |-> model, args |-> args])

SetItem(reg, coin, model, args) ==
    IF HasKey(reg, coin)
    THEN [reg EXCEPT ![IndexOf(reg, coin)] =
              [coin |-> coin, model |-> model, args |-> args]]
    ELSE Append(reg, [coin |-> coin, model |-> model, args |-> args])

\* the idx-th key met by "for coin_iterator in self.models"
KeyAtReversed(reg, idx) == reg[Len(reg) + 1 - idx].coin

KeyAt(reg, idx) == reg[idx].coin

(***************************************************************************)
(* The attached models and the exchange account, as the Exchange sees them.*)
(***************************************************************************)
is_running(model) == running[model]

get_state(model) == mstate[model]

get_asset_state(symbol) == [symbol |-> symbol, balance |-> assetState]

\* one call made by the Exchange: the method, the model (or symbol) it is made
\* on, its argument and how it ended
Event(call, on, arg, ret) == [call |-> call, on |-> on, arg |-> arg, ret |-> ret]

Returned(value) == [status |-> "returned", value |-> value]

Raised == [status |-> "raised", value |-> "-"]

NoEntry == [model |-> "-", args |-> "-"]

NoAccount == [symbol |-> "-", balance |-> 0]

NoResult == [status |-> "none", value |-> "-"]

NewFrame(op, coin) ==
    [op |-> op, coin |-> coin, model |-> "-", args |-> "-", key |-> "-",
     idx |-> 0, iter |-> "-", size |-> 0, account |-> NoAccount,
     state |-> NoResult]

\* a caller enters an Exchange method
Begin(t) ==
    /\ pc[t] = "idle"
    /\ nOps < opLimit
    /\ nOps' = nOps + 1

Fresh(t, events) == trace' = [trace EXCEPT ![t] = events]

Log(t, events) == trace' = [trace EXCEPT ![t] = @ \o events]

Return(t, value) ==
    /\ pc' = [pc EXCEPT ![t] = "idle"]
    /\ result' = [result EXCEPT ![t] = [status |-> "returned", value |-> value]]

Raise(t, error) ==
    /\ pc' = [pc EXCEPT ![t] = "idle"]
    /\ result' = [result EXCEPT ![t] = [status |-> "raised", value |-> error]]

Goto(t, label) ==
    /\ pc' = [pc EXCEPT ![t] = label]
    /\ result' = [result EXCEPT ![t] = NoResult]

(***************************************************************************)
(* get_model_state(currency): self.models[currency]["model"].get_state().  *)
(* A missing key raises KeyError before any model is called.               *)
(***************************************************************************)
get_model_state_stale(currency, outcome) ==
    IF ~HasKey(models, currency)
    THEN [status |-> "raised", value |-> "KeyError", events |-> <<>>]
    ELSE LET model == GetItem(models, currency).model
             cached == [k \in Keys |-> 0]
         IN  IF outcome = "ok"
             THEN [status |-> "returned", value |-> cached, events |-> <<>>]
             ELSE [status |-> "raised", value |-> "ModelError",
                   events |-> <<Event("get_state", model, "-", Raised)>>]

get_model_state_first(currency, outcome) ==
    IF models = <<>>
    THEN [status |-> "raised", value |-> "KeyError", events |-> <<>>]
    ELSE LET model == models[1].model
         IN  IF outcome = "ok"
             THEN [status |-> "returned", value |-> get_state(model),
                   events |-> <<Event("get_state", model, "-",
                                      Returned(get_state(model)))>>]
             ELSE [status |-> "raised", value |-> "ModelError",
                   events |-> <<Event("get_state", model, "-", Raised)>>]

get_model_state(currency, outcome) ==
    IF ~HasKey(models, currency)
    THEN [status |-> "raised", value |-> "KeyError", events |-> <<>>]
    ELSE LET model == GetItem(models, currency).model
         IN  IF outcome = "ok"
             THEN [status |-> "returned", value |-> get_state(model),
                   events |-> <<Event("get_state", model, "-",
                                      Returned(get_state(model)))>>]
             ELSE [status |-> "raised", value |-> "ModelError",
                   events |-> <<Event("get_state", model, "-", Raised)>>]

\* a variant that makes an entry for a currency that has none
GetModelStateCreating(t, currency) ==
    /\ Begin(t)
    /\ frame' = [frame EXCEPT ![t] = NewFrame("get_model_state", currency)]
    /\ models' = IF HasKey(models, currency)
                 THEN models
                 ELSE SetItem(models, currency, "m1", "None")
    /\ \E outcome \in Outcomes :
          LET r == get_model_state(currency, outcome)
          IN  /\ Fresh(t, r.events)
              /\ IF r.status = "returned"
                 THEN Return(t, r.value)
                 ELSE Raise(t, r.value)
    /\ UNCHANGED <<ledgerVars, signalVars, configVars, firstOrder,
                   givenInterfaces>>
    /\ UNCHANGED <<modelVars, lastAttach, prevAttach,
                   attachCount, setupCount, runCount>>

GetModelState(t, currency) ==
    /\ Begin(t)
    /\ frame' = [frame EXCEPT ![t] = NewFrame("get_model_state", currency)]
    /\ \E outcome \in Outcomes :
          LET r == get_model_state(currency, outcome)
          IN  /\ Fresh(t, r.events)
              /\ IF r.status = "returned"
                 THEN Return(t, r.value)
                 ELSE Raise(t, r.value)
    /\ UNCHANGED <<ledgerVars, signalVars, configVars, firstOrder,
                   givenInterfaces>>
    /\ UNCHANGED <<models, modelVars, lastAttach, prevAttach,
                   attachCount, setupCount, runCount>>

(***************************************************************************)
(* get_full_state(currency): first the account from get_asset_state, then  *)
(* the model state from get_model_state.  append_model runs the same two   *)
(* statements to build the initial state it hands to setup.                *)
(***************************************************************************)
GetFullState(t, currency) ==
    /\ Begin(t)
    /\ frame' = [frame EXCEPT ![t] = NewFrame("get_full_state", currency)]
    /\ Fresh(t, <<>>)
    /\ Goto(t, "full_asset")
    /\ UNCHANGED <<ledgerVars, signalVars, configVars, firstOrder,
                   givenInterfaces>>
    /\ UNCHANGED <<models, modelVars, lastAttach, prevAttach,
                   attachCount, setupCount, runCount>>

FullStateAsset(t) ==
    /\ pc[t] = "full_asset"
    /\ \E outcome \in Outcomes :
          IF outcome = "ok"
          THEN /\ frame' = [frame EXCEPT
                              ![t].account = get_asset_state(frame[t].coin)]
               /\ Log(t, <<Event("get_asset_state", frame[t].coin, "-",
                                 Returned(get_asset_state(frame[t].coin)))>>)
               /\ Goto(t, "full_model")
          ELSE /\ Log(t, <<Event("get_asset_state", frame[t].coin, "-", Raised)>>)
               /\ Raise(t, "ExchangeError")
               /\ UNCHANGED frame
    /\ UNCHANGED <<ledgerVars, signalVars, configVars, firstOrder,
                   givenInterfaces>>
    /\ UNCHANGED <<models, modelVars, lastAttach, prevAttach,
                   attachCount, setupCount, runCount, nOps>>

FullStateModel(t) ==
    /\ pc[t] = "full_model"
    /\ \E outcome \in Outcomes :
          LET r == get_model_state(frame[t].coin, outcome)
              full == [account |-> frame[t].account, model |-> r.value]
          IN  /\ Log(t, r.events)
              /\ IF r.status = "raised"
                 THEN /\ Raise(t, r.value)
                      /\ UNCHANGED frame
                 ELSE IF frame[t].op = "append_model"
                 THEN /\ frame' = [frame EXCEPT ![t].state =
                                     [status |-> "built", value |-> full]]
                      /\ Goto(t, "attach_setup")
                 ELSE /\ Return(t, full)
                      /\ UNCHANGED frame
    /\ UNCHANGED <<ledgerVars, signalVars, configVars, firstOrder,
                   givenInterfaces>>
    /\ UNCHANGED <<models, modelVars, lastAttach, prevAttach,
                   attachCount, setupCount, runCount, nOps>>

(***************************************************************************)
(* write_value(currency, key, value):                                      *)
(* self.models[currency]["model"].update_state(key, value).                *)
(***************************************************************************)
WriteValue(t, currency, key, value) ==
    /\ Begin(t)
    /\ frame' = [frame EXCEPT ![t] =
                   [NewFrame("write_value", currency) EXCEPT !.key = key]]
    /\ IF ~HasKey(models, currency)
       THEN /\ Fresh(t, <<>>)
            /\ Raise(t, "KeyError")
            /\ UNCHANGED mstate
       ELSE LET model == GetItem(models, currency).model
            IN  \E outcome \in Outcomes :
                   IF outcome = "ok"
                   THEN /\ mstate' = [mstate EXCEPT ![model][key] = value]
                        /\ Fresh(t, <<Event("update_state", model,
                                            <<key, value>>, Returned("None"))>>)
                        /\ Return(t, "None")
                   ELSE /\ Fresh(t, <<Event("update_state", model,
                                            <<key, value>>, Raised)>>)
                        /\ Raise(t, "ModelError")
                        /\ UNCHANGED mstate
    /\ UNCHANGED <<ledgerVars, signalVars, configVars, firstOrder,
                   givenInterfaces>>
    /\ UNCHANGED <<models, running, assetState, lastAttach,
                   prevAttach, attachCount, setupCount, runCount>>

(***************************************************************************)
(* append_model(model, coin_id, args): the entry is assigned first, then   *)
(* the arguments of setup are evaluated (get_full_state among them), then  *)
(* setup is called on the model given.                                     *)
(***************************************************************************)
AppendModelSetupFirst(t, model, coin_id, args) ==
    /\ Begin(t)
    /\ frame' = [frame EXCEPT ![t] =
                   [NewFrame("append_model", coin_id) EXCEPT
                       !.model = model, !.args = args]]
    /\ prevAttach' = [prevAttach EXCEPT ![coin_id] = lastAttach[coin_id]]
    /\ lastAttach' = [lastAttach EXCEPT ![coin_id] =
                        [model |-> model, args |-> args]]
    /\ attachCount' = [attachCount EXCEPT ![model] = @ + 1]
    /\ Fresh(t, <<>>)
    /\ Goto(t, "full_asset")
    /\ firstOrder' = IF \E i \in 1..Len(firstOrder) : firstOrder[i] = coin_id
                     THEN firstOrder
                     ELSE Append(firstOrder, coin_id)
    /\ UNCHANGED <<ledgerVars, signalVars, configVars, givenInterfaces>>
    /\ UNCHANGED <<models, modelVars, setupCount, runCount>>

AppendModel(t, model, coin_id, args) ==
    /\ Begin(t)
    /\ models' = SetItem(models, coin_id, model, args)
    /\ frame' = [frame EXCEPT ![t] =
                   [NewFrame("append_model", coin_id) EXCEPT
                       !.model = model, !.args = args]]
    /\ prevAttach' = [prevAttach EXCEPT ![coin_id] = lastAttach[coin_id]]
    /\ lastAttach' = [lastAttach EXCEPT ![coin_id] =
                        [model |-> model, args |-> args]]
    /\ attachCount' = [attachCount EXCEPT ![model] = @ + 1]
    /\ Fresh(t, <<>>)
    /\ Goto(t, "full_asset")
    /\ firstOrder' = IF \E i \in 1..Len(firstOrder) : firstOrder[i] = coin_id
                     THEN firstOrder
                     ELSE Append(firstOrder, coin_id)
    /\ UNCHANGED <<ledgerVars, signalVars, configVars, givenInterfaces>>
    /\ UNCHANGED <<modelVars, setupCount, runCount>>

\* the arguments of setup that matter here: get_full_state(coin_id), evaluated
\* first, and self.Interface, read after it
SetupArgs(full_state) == [initial_state |-> full_state, interface |-> Interface]

AttachSetup(t) ==
    /\ pc[t] = "attach_setup"
    /\ setupCount' = [setupCount EXCEPT ![frame[t].model] = @ + 1]
    /\ \E outcome \in Outcomes :
          IF outcome = "ok"
          THEN /\ Log(t, <<Event("setup", frame[t].model,
                                 SetupArgs(frame[t].state.value),
                                 Returned("None"))>>)
               /\ Return(t, "None")
          ELSE /\ Log(t, <<Event("setup", frame[t].model,
                                 SetupArgs(frame[t].state.value), Raised)>>)
               /\ Raise(t, "ModelError")
    /\ givenInterfaces' = givenInterfaces \cup {Interface}
    /\ UNCHANGED <<ledgerVars, signalVars, configVars, firstOrder>>
    /\ UNCHANGED <<models, modelVars, frame, lastAttach,
                   prevAttach, attachCount, runCount, nOps>>

(***************************************************************************)
(* start_models(coin_id): with a coin_id, is_running() is asked of that    *)
(* entry's model and run(args) is called if it answers False.              *)
(***************************************************************************)
CallRunWithSetup(t, entry, outcome) ==
    /\ runCount' = [runCount EXCEPT ![entry.model] = @ + 1]
    /\ IF outcome = "ok"
       THEN /\ running' = [running EXCEPT ![entry.model] = TRUE]
            /\ Log(t, <<Event("setup", entry.model, "-", Returned("None")),
                        Event("run", entry.model, entry.args, Returned("None"))>>)
       ELSE /\ UNCHANGED running
            /\ Log(t, <<Event("run", entry.model, entry.args, Raised)>>)

\* model.run(args): the model is running once run has returned
CallRun(t, entry, outcome) ==
    /\ runCount' = [runCount EXCEPT ![entry.model] = @ + 1]
    /\ IF outcome = "ok"
       THEN /\ running' = [running EXCEPT ![entry.model] = TRUE]
            /\ Log(t, <<Event("run", entry.model, entry.args, Returned("None"))>>)
       ELSE /\ UNCHANGED running
            /\ Log(t, <<Event("run", entry.model, entry.args, Raised)>>)

StartModelsUnguarded(t, coin_id) ==
    /\ Begin(t)
    /\ frame' = [frame EXCEPT ![t] =
                   [NewFrame("start_models", coin_id) EXCEPT
                       !.size = Len(models)]]
    /\ IF coin_id # "None"
       THEN IF ~HasKey(models, coin_id)
            THEN /\ Fresh(t, <<>>)
                 /\ Raise(t, "KeyError")
            ELSE LET model == GetItem(models, coin_id).model
                 IN  /\ Fresh(t, <<Event("is_running", model, "-",
                                         Returned(is_running(model)))>>)
                     /\ Goto(t, "start_run")
       ELSE /\ Fresh(t, <<>>)
            /\ Goto(t, "bulk_next")
    /\ UNCHANGED <<ledgerVars, signalVars, configVars, firstOrder,
                   givenInterfaces>>
    /\ UNCHANGED <<models, modelVars, lastAttach, prevAttach,
                   attachCount, setupCount, runCount>>

StartModels(t, coin_id) ==
    /\ Begin(t)
    /\ frame' = [frame EXCEPT ![t] =
                   [NewFrame("start_models", coin_id) EXCEPT
                       !.size = Len(models)]]
    /\ IF coin_id # "None"
       THEN IF ~HasKey(models, coin_id)
            THEN /\ Fresh(t, <<>>)
                 /\ Raise(t, "KeyError")
            ELSE LET model == GetItem(models, coin_id).model
                 IN  /\ Fresh(t, <<Event("is_running", model, "-",
                                         Returned(is_running(model)))>>)
                     /\ IF ~is_running(model)
                        THEN Goto(t, "start_run")
                        ELSE Return(t, "None")
       ELSE /\ Fresh(t, <<>>)
            /\ Goto(t, "bulk_next")
    /\ UNCHANGED <<ledgerVars, signalVars, configVars, firstOrder,
                   givenInterfaces>>
    /\ UNCHANGED <<models, modelVars, lastAttach, prevAttach,
                   attachCount, setupCount, runCount>>

StartRun(t) ==
    /\ pc[t] = "start_run"
    /\ \E outcome \in Outcomes :
          /\ CallRun(t, GetItem(models, frame[t].coin), outcome)
          /\ IF outcome = "ok" THEN Return(t, "None") ELSE Raise(t, "ModelError")
    /\ UNCHANGED <<ledgerVars, signalVars, configVars, firstOrder,
                   givenInterfaces>>
    /\ UNCHANGED <<models, mstate, assetState, frame, lastAttach,
                   prevAttach, attachCount, setupCount, nOps>>

(***************************************************************************)
(* start_models(): the keys are visited in the dict's order; a model that  *)
(* answers False to is_running() is run with its args, one that answers    *)
(* True is reported and skipped.  The dict iterator raises RuntimeError    *)
(* when the dict has changed size since the loop began.                    *)
(***************************************************************************)
BulkNext(t) ==
    /\ pc[t] = "bulk_next"
    /\ LET idx == frame[t].idx + 1
       IN  IF Len(models) # frame[t].size
           THEN /\ Raise(t, "RuntimeError")
                /\ UNCHANGED <<frame, trace>>
           ELSE IF idx > Len(models)
           THEN /\ Return(t, "None")
                /\ UNCHANGED <<frame, trace>>
           ELSE LET coin_iterator == KeyAt(models, idx)
                    model == GetItem(models, coin_iterator).model
                IN  /\ frame' = [frame EXCEPT ![t].idx = idx,
                                              ![t].iter = coin_iterator]
                    /\ Log(t, <<Event("is_running", model, "-",
                                      Returned(is_running(model)))>>)
                    /\ IF ~is_running(model)
                       THEN Goto(t, "bulk_run")
                       ELSE Goto(t, "bulk_next")
    /\ UNCHANGED <<ledgerVars, signalVars, configVars, firstOrder,
                   givenInterfaces>>
    /\ UNCHANGED <<models, modelVars, lastAttach, prevAttach,
                   attachCount, setupCount, runCount, nOps>>

BulkRun(t) ==
    /\ pc[t] = "bulk_run"
    /\ \E outcome \in Outcomes :
          /\ CallRun(t, GetItem(models, frame[t].iter), outcome)
          /\ IF outcome = "ok"
             THEN Goto(t, "bulk_next")
             ELSE Raise(t, "ModelError")
    /\ UNCHANGED <<ledgerVars, signalVars, configVars, firstOrder,
                   givenInterfaces>>
    /\ UNCHANGED <<models, mstate, assetState, frame, lastAttach,
                   prevAttach, attachCount, setupCount, nOps>>

(***************************************************************************)
(* construct_interface(calls): for a coinbase_pro or binance exchange a    *)
(* new interface object is built and assigned to self.Interface; for any   *)
(* other type nothing is assigned.                                         *)
(***************************************************************************)
ConstructInterface(t) ==
    /\ Begin(t)
    /\ frame' = [frame EXCEPT ![t] = NewFrame("construct_interface", "-")]
    /\ Interface' = IF exchangeType \in {"coinbase_pro", "binance"}
                    THEN Interface + 1
                    ELSE Interface
    /\ Fresh(t, <<>>)
    /\ Return(t, "None")
    /\ UNCHANGED <<ledgerVars, signalVars, opLimit, exchangeType, firstOrder,
                   givenInterfaces>>
    /\ UNCHANGED <<models, modelVars, lastAttach, prevAttach, attachCount,
                   setupCount, runCount>>

(***************************************************************************)
(* What goes on outside the Exchange: a running model stops by itself or   *)
(* changes its own state, and the account at the exchange changes.         *)
(***************************************************************************)
ModelStops(model) ==
    /\ running[model]
    /\ running' = [running EXCEPT ![model] = FALSE]
    /\ UNCHANGED <<ledgerVars, signalVars, configVars, firstOrder,
                   givenInterfaces>>
    /\ UNCHANGED <<models, mstate, assetState, pc, frame, trace,
                   result, lastAttach, prevAttach, attachCount, setupCount, runCount, nOps>>

ModelUpdatesState(model, key, value) ==
    /\ running[model]
    /\ mstate[model][key] # value
    /\ mstate' = [mstate EXCEPT ![model][key] = value]
    /\ UNCHANGED <<ledgerVars, signalVars, configVars, firstOrder,
                   givenInterfaces>>
    /\ UNCHANGED <<models, running, assetState, pc, frame, trace,
                   result, lastAttach, prevAttach, attachCount, setupCount, runCount, nOps>>

AssetStateChanges(value) ==
    /\ assetState # value
    /\ assetState' = value
    /\ UNCHANGED <<ledgerVars, signalVars, configVars, firstOrder,
                   givenInterfaces>>
    /\ UNCHANGED <<models, running, mstate, pc, frame, trace,
                   result, lastAttach, prevAttach, attachCount, setupCount, runCount, nOps>>

(***************************************************************************)
(* Specifications.                                                         *)
(***************************************************************************)
\* Exchange.__init__: the model container is empty
InitExchange ==
    /\ models = <<>>
    /\ running = [m \in Models |-> FALSE]
    /\ mstate = [m \in Models |-> [k \in Keys |-> 0]]
    /\ assetState = 0
    /\ pc = [t \in Threads |-> "idle"]
    /\ frame = [t \in Threads |-> NewFrame("-", "-")]
    /\ trace = [t \in Threads |-> <<>>]
    /\ result = [t \in Threads |-> NoResult]
    /\ lastAttach = [c \in CoinIds |-> NoEntry]
    /\ prevAttach = [c \in CoinIds |-> NoEntry]
    /\ attachCount = [m \in Models |-> 0]
    /\ setupCount = [m \in Models |-> 0]
    /\ runCount = [m \in Models |-> 0]
    /\ nOps = 0
    /\ firstOrder = <<>>
    /\ Interface = 0
    /\ givenInterfaces = {}

\* no Signal has been constructed
NoSignal ==
    /\ callables = [init |-> FALSE, evaluator |-> FALSE, formatter |-> FALSE,
                    teardown |-> FALSE]
    /\ symbols = <<>>
    /\ spc = "none"
    /\ sidx = 0
    /\ heap = <<>>
    /\ dicts = <<>>
    /\ raw_results = 0
    /\ formatted_results = [dict |-> 0, value |-> "-"]
    /\ produced = <<>>
    /\ strace = <<>>
    /\ sresult = "none"

\* no trade has been made on the local account
NoLedger ==
    /\ account = [c \in Currencies |-> 0]
    /\ initKeys = Currencies
    /\ lastTrade = NoTrade
    /\ nTrades = 0

InitLedger ==
    /\ account \in Ledgers
    /\ initKeys = DOMAIN account
    /\ lastTrade = NoTrade
    /\ nTrades = 0
    /\ InitExchange
    /\ opLimit = MaxOps
    /\ exchangeType = "coinbase_pro"
    /\ NoSignal

NextLedger ==
    \/ TradeLocal
    \/ InitLocalAccount

SpecLedger == InitLedger /\ [][NextLedger]_vars

Init ==
    /\ NoLedger
    /\ InitExchange
    /\ opLimit = MaxOps
    /\ exchangeType = "coinbase_pro"
    /\ NoSignal

Call(t) ==
    \/ \E m \in Models, c \in CoinIds, a \in ArgVals : AppendModel(t, m, c, a)
    \/ \E c \in CoinIds \cup {"None"} : StartModels(t, c)
    \/ \E c \in CoinIds : GetModelState(t, c)
    \/ \E c \in CoinIds : GetFullState(t, c)
    \/ \E c \in CoinIds, k \in Keys, v \in StateVals : WriteValue(t, c, k, v)

Step(t) ==
    \/ FullStateAsset(t)
    \/ FullStateModel(t)
    \/ AttachSetup(t)
    \/ StartRun(t)
    \/ BulkNext(t)
    \/ BulkRun(t)

Environment ==
    \/ \E m \in Models : ModelStops(m)
    \/ \E m \in Models, k \in Keys, v \in StateVals : ModelUpdatesState(m, k, v)
    \/ \E v \in AssetVals : AssetStateChanges(v)

\* one caller: the methods of the Exchange are called one at a time
Next ==
    \/ Call("main")
    \/ Step("main")
    \/ Environment

Spec == Init /\ [][Next]_vars

\* the same with construct_interface among the calls, for any exchange type
InitInterface ==
    /\ NoLedger
    /\ InitExchange
    /\ opLimit = MaxOps
    /\ exchangeType \in ExchangeTypes
    /\ NoSignal

NextInterface ==
    \/ Call("main")
    \/ ConstructInterface("main")
    \/ Step("main")
    \/ Environment

SpecInterface == InitInterface /\ [][NextInterface]_vars

(***************************************************************************)
(* Ledger properties.                                                      *)
(***************************************************************************)

\* C1 (as claimed): a trade_local call that raised, for a missing base or a
\* missing quote currency, left every balance as it was before the call.
FailedTradeLeavesBalances ==
    (lastTrade.called /\ lastTrade.raised # "none") => account = lastTrade.old

\* C2 (as claimed): after a trade_local call whose base and quote currencies
\* both exist, the call did not raise, the base balance is the old one plus
\* base_delta, the quote balance the old one plus quote_delta, and every other
\* balance is the old one.
TradeAppliesDeltas ==
    LET base == get_base_currency(lastTrade.pair)
        quote == get_quote_currency(lastTrade.pair)
        old == lastTrade.old
    IN  (lastTrade.called /\ base \in DOMAIN old /\ quote \in DOMAIN old) =>
            /\ lastTrade.raised = "none"
            /\ DOMAIN account = DOMAIN old
            /\ account[base] = old[base] + lastTrade.base_delta
            /\ account[quote] = old[quote] + lastTrade.quote_delta
            /\ \A c \in DOMAIN old \ {base, quote} : account[c] = old[c]

\* C2 (amended): the same for a pair of two distinct currencies; for a pair
\* whose base and quote are the same currency that one balance is the old one
\* plus both deltas.
TradeAppliesDeltasDistinct ==
    LET base == get_base_currency(lastTrade.pair)
        quote == get_quote_currency(lastTrade.pair)
        old == lastTrade.old
    IN  (lastTrade.called /\ base \in DOMAIN old /\ quote \in DOMAIN old) =>
            /\ lastTrade.raised = "none"
            /\ DOMAIN account = DOMAIN old
            /\ base # quote =>
                  /\ account[base] = old[base] + lastTrade.base_delta
                  /\ account[quote] = old[quote] + lastTrade.quote_delta
            /\ base = quote =>
                  account[base] = old[base] + lastTrade.base_delta
                                            + lastTrade.quote_delta
            /\ \A c \in DOMAIN old \ {base, quote} : account[c] = old[c]

\* A trade on two distinct existing currencies, with distinct deltas, that
\* drove a balance negative, in a ledger holding a third currency.
TradeAppliedWitness ==
    LET base == get_base_currency(lastTrade.pair)
        quote == get_quote_currency(lastTrade.pair)
    IN  /\ lastTrade.called
        /\ lastTrade.raised = "none"
        /\ base # quote
        /\ lastTrade.base_delta # lastTrade.quote_delta
        /\ DOMAIN account = Currencies
        /\ account[base] < 0
        /\ nTrades = 2

\* C3: the currency codes of the ledger are those given to init_local_account,
\* whatever trade_local calls followed, successful or failing.
LedgerKeysAreInitKeys ==
    DOMAIN account = initKeys

\* A trade_local call that named a currency the ledger does not hold.
MissingCurrencyTradedWitness ==
    /\ lastTrade.called
    /\ lastTrade.raised = "quote"
    /\ get_quote_currency(lastTrade.pair) \notin initKeys
    /\ get_base_currency(lastTrade.pair) \in initKeys
    /\ nTrades = 2

(***************************************************************************)
(* Exchange properties.  The calls a method made are read off its trace.   *)
(***************************************************************************)
CallsOf(tr, call) == {i \in 1..Len(tr) : tr[i].call = call}

EntryOf(fr) == [coin |-> fr.coin, model |-> fr.model, args |-> fr.args]

Stored(fr) == HasKey(models, fr.coin) /\ GetItem(models, fr.coin) = EntryOf(fr)

IsBulkStart(fr) == fr.op = "start_models" /\ fr.coin = "None"

IsSingleStart(fr) == fr.op = "start_models" /\ fr.coin # "None"

\* C4 (as claimed): an append_model call whose setup has not been called yet
\* has no entry in the registry.
EntryOnlyAfterSetup ==
    \A t \in Threads :
        (frame[t].op = "append_model" /\ CallsOf(trace[t], "setup") = {})
            => ~Stored(frame[t])

\* C4 (amended): append_model stores the entry first and builds the full state
\* and calls setup after it: from its first statement on the entry is in the
\* registry, so the lookup of get_full_state never misses it, and setup is
\* the third call, after get_asset_state on the symbol and get_state on the
\* model attached, and is given the two values they returned.
AttachStoresBeforeSetup ==
    \A t \in Threads :
        frame[t].op = "append_model" =>
            LET tr == trace[t]
            IN  /\ Stored(frame[t])
                /\ ~(result[t].status = "raised" /\ result[t].value = "KeyError")
                /\ \A i \in CallsOf(tr, "setup") :
                      /\ i = 3
                      /\ tr[i].on = frame[t].model
                      /\ tr[1].call = "get_asset_state"
                      /\ tr[1].on = frame[t].coin
                      /\ tr[2].call = "get_state"
                      /\ tr[2].on = frame[t].model
                      /\ tr[i].arg.initial_state =
                            [account |-> tr[1].ret.value,
                             model |-> tr[2].ret.value]

\* An append_model on a symbol that already had another model has called
\* setup on the new model and returned.
ReattachSetupWitness ==
    \E t \in Threads :
        /\ frame[t].op = "append_model"
        /\ result[t].status = "returned"
        /\ CallsOf(trace[t], "setup") # {}
        /\ prevAttach[frame[t].coin] # NoEntry
        /\ prevAttach[frame[t].coin].model # frame[t].model

\* C5: start_models() asks is_running() of the entries in the registry's
\* insertion order, calls run, with the entry's args, exactly once after each
\* answer False and not at all after an answer True, makes no other call, and
\* when it returns it has visited every entry; it raises only if run did.
BulkStartInOrder ==
    \A t \in Threads :
        IsBulkStart(frame[t]) =>
            LET tr == trace[t]
                checks == CallsOf(tr, "is_running")
                rank(i) == Cardinality({j \in checks : j <= i})
            IN  /\ \A i \in 1..Len(tr) : tr[i].call \in {"is_running", "run"}
                /\ \A i \in checks :
                      /\ rank(i) <= Len(models)
                      /\ tr[i].on = models[rank(i)].model
                      /\ tr[i].ret.value = FALSE =>
                            IF i < Len(tr)
                            THEN tr[i + 1].call = "run"
                            ELSE pc[t] = "bulk_run"
                      /\ tr[i].ret.value = TRUE =>
                            IF i < Len(tr)
                            THEN tr[i + 1].call = "is_running"
                            ELSE pc[t] = "bulk_next" \/ result[t].status = "returned"
                /\ \A i \in CallsOf(tr, "run") :
                      /\ i > 1
                      /\ tr[i - 1].call = "is_running"
                      /\ tr[i - 1].ret.value = FALSE
                      /\ tr[i].on = tr[i - 1].on
                      /\ tr[i].arg = models[rank(i - 1)].args
                /\ result[t].status = "returned" =>
                      Cardinality(checks) = Len(models)
                /\ result[t].status = "raised" =>
                      /\ tr # <<>>
                      /\ tr[Len(tr)].call = "run"
                      /\ tr[Len(tr)].ret.status = "raised"

\* start_models() returned over two entries with different models and
\* different args, neither running: both were run, in the order in which
\* their symbols were attached, each with its own args.
BulkStartWitness ==
    \E t \in Threads :
        /\ IsBulkStart(frame[t])
        /\ result[t].status = "returned"
        /\ Len(models) = 2
        /\ models[1].model # models[2].model
        /\ models[1].args # models[2].args
        /\ Len(trace[t]) = 4
        /\ trace[t][2].call = "run"
        /\ trace[t][2].on = models[1].model
        /\ trace[t][4].call = "run"
        /\ trace[t][4].on = models[2].model
        /\ \A m \in Models : runCount[m] = 1

\* C6: start_models(coin_id) on a symbol with an entry asks is_running() of
\* that entry's model; on False it calls run on it with the entry's args, on
\* True it returns without an error; it calls nothing on any other model.
SingleStartRunsOnlyEntry ==
    \A t \in Threads :
        (IsSingleStart(frame[t]) /\ HasKey(models, frame[t].coin)) =>
            LET tr == trace[t]
                entry == GetItem(models, frame[t].coin)
            IN  /\ Len(tr) \in {1, 2}
                /\ \A i \in 1..Len(tr) : tr[i].on = entry.model
                /\ tr[1].call = "is_running"
                /\ tr[1].ret.value = TRUE =>
                      /\ Len(tr) = 1
                      /\ result[t] = Returned("None")
                /\ tr[1].ret.value = FALSE =>
                      IF pc[t] = "start_run"
                      THEN Len(tr) = 1
                      ELSE /\ Len(tr) = 2
                           /\ tr[2].call = "run"
                           /\ tr[2].arg = entry.args
                           /\ result[t].status = tr[2].ret.status

\* start_models(coin_id) has run the model of its entry, with args other
\* than None, while the other entry's model was left not running.
SingleStartWitness ==
    \E t \in Threads :
        /\ IsSingleStart(frame[t])
        /\ result[t].status = "returned"
        /\ Len(models) = 2
        /\ Len(trace[t]) = 2
        /\ trace[t][2].call = "run"
        /\ trace[t][2].arg = "args1"
        /\ \E i \in 1..2 :
              /\ models[i].coin # frame[t].coin
              /\ models[i].model # trace[t][2].on
              /\ ~running[models[i].model]
              /\ runCount[models[i].model] = 0

\* C7: the registry holds one entry per symbol, the model and args of the
\* latest append_model on it, and start_models(symbol) calls run on that
\* model with those args only.
ReattachReplacesEntry ==
    /\ \A i, j \in 1..Len(models) : models[i].coin = models[j].coin => i = j
    /\ \A c \in CoinIds :
          IF lastAttach[c] = NoEntry
          THEN ~HasKey(models, c)
          ELSE /\ HasKey(models, c)
               /\ GetItem(models, c).model = lastAttach[c].model
               /\ GetItem(models, c).args = lastAttach[c].args
    /\ \A t \in Threads :
          IsSingleStart(frame[t]) =>
              \A i \in CallsOf(trace[t], "run") :
                  /\ trace[t][i].on = lastAttach[frame[t].coin].model
                  /\ trace[t][i].arg = lastAttach[frame[t].coin].args

\* m1 then m2, with other args, were attached to one symbol, and
\* start_models on that symbol has run m2.
ReattachStartWitness ==
    \E t \in Threads :
        /\ IsSingleStart(frame[t])
        /\ result[t].status = "returned"
        /\ prevAttach[frame[t].coin] # NoEntry
        /\ prevAttach[frame[t].coin].model # lastAttach[frame[t].coin].model
        /\ prevAttach[frame[t].coin].args # lastAttach[frame[t].coin].args
        /\ CallsOf(trace[t], "run") # {}
        /\ runCount[lastAttach[frame[t].coin].model] = 1
        /\ runCount[prevAttach[frame[t].coin].model] = 0

ModelStateIsCurrent ==
    [][\A t \in Threads :
          /\ (/\ nOps' = nOps + 1
              /\ frame'[t].op = "get_model_state"
              /\ result'[t].status = "returned")
                => /\ HasKey(models, frame'[t].coin)
                   /\ result'[t].value =
                         mstate[GetItem(models, frame'[t].coin).model]
          /\ (/\ frame[t].op = "get_full_state"
              /\ pc[t] = "full_asset"
              /\ pc'[t] = "full_model")
                => frame'[t].account =
                      [symbol |-> frame[t].coin, balance |-> assetState]
          /\ (/\ frame[t].op = "get_full_state"
              /\ pc[t] = "full_model"
              /\ result'[t].status = "returned")
                => /\ HasKey(models, frame[t].coin)
                   /\ result'[t].value =
                         [account |-> frame[t].account,
                          model |-> mstate[GetItem(models, frame[t].coin).model]]
      ]_vars

\* get_model_state returned a state that write_value wrote after the model
\* was attached (no model ever ran, so none changed its state by itself).
ModelStateAfterWriteWitness ==
    \E t \in Threads :
        /\ frame[t].op = "get_model_state"
        /\ result[t].status = "returned"
        /\ result[t].value # [k \in Keys |-> 0]
        /\ \A m \in Models : runCount[m] = 0

\* C10: get_model_state and write_value on a symbol without an entry raise
\* KeyError, call no model, and leave the registry, every model's state and
\* every model's running flag as they were.
UnknownSymbolRaises ==
    [][\A t \in Threads :
          (/\ nOps' = nOps + 1
           /\ frame'[t].op \in {"get_model_state", "write_value"}
           /\ ~HasKey(models, frame'[t].coin))
             => /\ result'[t].status = "raised"
                /\ result'[t].value = "KeyError"
                /\ pc'[t] = "idle"
                /\ trace'[t] = <<>>
                /\ models' = models
                /\ mstate' = mstate
                /\ running' = running
      ]_vars

\* write_value on a symbol without an entry raised while another symbol had
\* a running model attached.
UnknownSymbolWitness ==
    \E t \in Threads :
        /\ frame[t].op = "write_value"
        /\ result[t] = [status |-> "raised", value |-> "KeyError"]
        /\ ~HasKey(models, frame[t].coin)
        /\ models # <<>>
        /\ running[models[1].model]

(***************************************************************************)
(* Interface properties.                                                   *)
(***************************************************************************)

\* C11 (as claimed): whatever calls were made, construct_interface among
\* them, every setup was handed the same interface object.
OneInterfaceForAllModels ==
    Cardinality(givenInterfaces) <= 1

(***************************************************************************)
(* Signal: the objects the results are made of.                            *)
(*                                                                         *)
(* A result is an object with a value and with a reference to a nested     *)
(* object (the 'notes' of the result); heap[o] is the object with          *)
(* identity o.  A dictionary is an object too: dicts[d] is the             *)
(* insertion-ordered list of the keys of dictionary d, each with the       *)
(* identity of the object stored under it.  raw_results and                *)
(* formatted_results hold identities, so that two names of one object and  *)
(* two equal objects are different things.                                 *)
(***************************************************************************)
Symbols == {"A", "B"}
Classifications == {"pass", "fail"}

\* every list of symbols a Signal can be given
SymbolLists == UNION {[1..n -> Symbols] : n \in 0..MaxSymbols}

\* which of init, evaluator, formatter, teardown is a callable
CallableChoices == [{"init", "evaluator", "formatter", "teardown"} -> BOOLEAN]

SEvent(step, arg, phase, ret) ==
    [step |-> step, arg |-> arg, phase |-> phase, ret |-> ret]

\* the result object an evaluator returns: {'classification': c, 'notes': {...}}
NewResult(h, c) ==
    h \o <<[val |-> c, ref |-> Len(h) + 2], [val |-> "note", ref |-> 0]>>

\* d[key] = obj on an insertion-ordered dictionary
DictSet(d, key, obj) ==
    IF \E i \in 1..Len(d) : d[i].key = key
    THEN [i \in 1..Len(d) |-> IF d[i].key = key
                              THEN [key |-> key, obj |-> obj]
                              ELSE d[i]]
    ELSE Append(d, [key |-> key, obj |-> obj])

\* del d[d's i-th key]
DictDel(d, i) ==
    [j \in 1..(Len(d) - 1) |-> IF j < i THEN d[j] ELSE d[j + 1]]

\* a new dictionary with the same keys and the very same objects under them
copy_shallow(h, ds, d) ==
    [heap |-> h, dicts |-> Append(ds, ds[d]), dict |-> Len(ds) + 1]

\* copy.deepcopy of dictionary d: a new dictionary whose keys hold new
\* objects, every object copied once (object o as object o + Len(h)), the
\* references between the copies as between the originals
deepcopy(h, ds, d) ==
    LET n == Len(h)
        copies == [o \in 1..n |-> [val |-> h[o].val,
                                   ref |-> IF h[o].ref = 0 THEN 0
                                           ELSE h[o].ref + n]]
        newDict == [i \in 1..Len(ds[d]) |-> [key |-> ds[d][i].key,
                                             obj |-> ds[d][i].obj + n]]
    IN  [heap |-> h \o copies, dicts |-> Append(ds, newDict),
         dict |-> Len(ds) + 1]

\* what an object is worth: its value and the value of its nested object
ValueOf(h, o) ==
    [val |-> h[o].val,
     notes |-> IF h[o].ref = 0 THEN "-" ELSE h[h[o].ref].val]

\* what a dictionary is worth: its keys in order, each with its value
DeepValue(h, ds, d) ==
    [i \in 1..Len(ds[d]) |-> [key |-> ds[d][i].key,
                              value |-> ValueOf(h, ds[d][i].obj)]]

\* the objects reachable from dictionary d
ObjectsOf(h, ds, d) ==
    LET tops == {ds[d][i].obj : i \in 1..Len(ds[d])}
    IN  tops \cup {h[o].ref : o \in {p \in tops : h[p].ref # 0}}

(***************************************************************************)
(* Signal.__init__ and Signal.__run, statement by statement.  Each of the  *)
(* callables is entered by one step and left by another, by returning or   *)
(* by raising.                                                             *)
(***************************************************************************)
SignalFrame == <<ledgerVars, exchangeVars, callables, symbols>>

SLog(e) == strace' = Append(strace, e)

SRaise(error) ==
    /\ spc' = "raised"
    /\ sresult' = error

\* history: the value the evaluator returned for key, in place of an older one
Record(p, key, value) ==
    IF \E i \in 1..Len(p) : p[i].key = key
    THEN [i \in 1..Len(p) |-> IF p[i].key = key
                              THEN [key |-> key, value |-> value]
                              ELSE p[i]]
    ELSE Append(p, [key |-> key, value |-> value])

\* Signal(exchange, evaluator, symbols, init, teardown, formatter) up to the
\* call of __run
SignalNew(cs, syms) ==
    /\ spc = "none"
    /\ callables' = cs
    /\ symbols' = syms
    /\ dicts' = <<<<>>, <<>>>>
    /\ raw_results' = 1
    /\ formatted_results' = [dict |-> 2, value |-> "-"]
    /\ spc' = "init"
    /\ UNCHANGED <<ledgerVars, exchangeVars, sidx, heap, produced, strace, sresult>>

\* a variant that never calls init
SignalInitSkipped ==
    /\ spc = "init"
    /\ spc' = "check"
    /\ UNCHANGED <<SignalFrame, sidx, heap, dicts, raw_results,
                   formatted_results, produced, strace, sresult>>

\* if callable(init): init(self.signal_state)
SignalInit ==
    /\ spc = "init"
    /\ IF callables.init
       THEN /\ SLog(SEvent("init", "-", "call", "-"))
            /\ spc' = "in_init"
       ELSE /\ spc' = "check"
            /\ UNCHANGED strace
    /\ UNCHANGED <<SignalFrame, sidx, heap, dicts, raw_results,
                   formatted_results, produced, sresult>>

InitReturns(outcome) ==
    /\ spc = "in_init"
    /\ IF outcome = "ok"
       THEN /\ SLog(SEvent("init", "-", "return", "-"))
            /\ spc' = "check"
            /\ UNCHANGED sresult
       ELSE /\ SLog(SEvent("init", "-", "raise", "-"))
            /\ SRaise("Exception")
    /\ UNCHANGED <<SignalFrame, sidx, heap, dicts, raw_results,
                   formatted_results, produced>>

\* a variant that goes on to the symbols whatever the evaluator is
CheckEvaluatorLate ==
    /\ spc = "check"
    /\ spc' = "eval"
    /\ sidx' = 0
    /\ UNCHANGED <<SignalFrame, heap, dicts, raw_results, formatted_results,
                   produced, strace, sresult>>

\* if not callable(evaluator): raise TypeError(...)
CheckEvaluator ==
    /\ spc = "check"
    /\ IF ~callables.evaluator
       THEN /\ SRaise("TypeError")
            /\ UNCHANGED sidx
       ELSE /\ spc' = "eval"
            /\ sidx' = 0
            /\ UNCHANGED sresult
    /\ UNCHANGED <<SignalFrame, heap, dicts, raw_results, formatted_results,
                   produced, strace>>

\* for i in self.symbols: ... evaluator(i, self.signal_state)
EvalNext ==
    /\ spc = "eval"
    /\ IF sidx < Len(symbols)
       THEN /\ SLog(SEvent("evaluator", symbols[sidx + 1], "call", "-"))
            /\ spc' = "in_eval"
       ELSE /\ spc' = "copy"
            /\ UNCHANGED strace
    /\ UNCHANGED <<SignalFrame, sidx, heap, dicts, raw_results,
                   formatted_results, produced, sresult>>

\* a variant that goes on to the next symbol when the evaluator raised
EvalReturnsSwallowing(outcome, c) ==
    /\ spc = "in_eval"
    /\ SLog(SEvent("evaluator", symbols[sidx + 1],
                   IF outcome = "ok" THEN "return" ELSE "raise", c))
    /\ sidx' = sidx + 1
    /\ spc' = "eval"
    /\ UNCHANGED <<SignalFrame, heap, dicts, raw_results, formatted_results,
                   produced, sresult>>

\* self.raw_results[i] = <what the evaluator returned>
EvalReturns(outcome, c) ==
    /\ spc = "in_eval"
    /\ IF outcome = "ok"
       THEN /\ SLog(SEvent("evaluator", symbols[sidx + 1], "return", c))
            /\ heap' = NewResult(heap, c)
            /\ dicts' = [dicts EXCEPT ![raw_results] =
                            DictSet(@, symbols[sidx + 1], Len(heap) + 1)]
            /\ produced' = Record(produced, symbols[sidx + 1],
                                  [val |-> c, notes |-> "note"])
            /\ sidx' = sidx + 1
            /\ spc' = "eval"
            /\ UNCHANGED sresult
       ELSE /\ SLog(SEvent("evaluator", symbols[sidx + 1], "raise", "-"))
            /\ SRaise("Exception")
            /\ UNCHANGED <<heap, dicts, produced, sidx>>
    /\ UNCHANGED <<SignalFrame, raw_results, formatted_results>>

\* self.formatted_results = deepcopy(self.raw_results)
CopyResults ==
    /\ spc = "copy"
    /\ LET c == deepcopy(heap, dicts, raw_results)
       IN  /\ heap' = c.heap
           /\ dicts' = c.dicts
           /\ formatted_results' = [dict |-> c.dict, value |-> "-"]
    /\ SLog(SEvent("copy", "-", "return", "-"))
    /\ spc' = "format"
    /\ UNCHANGED <<SignalFrame, sidx, raw_results, produced, sresult>>

\* if callable(formatter): ... formatter(self.formatted_results, self.signal_state)
FormatCall ==
    /\ spc = "format"
    /\ IF callables.formatter
       THEN /\ SLog(SEvent("formatter", "-", "call", "-"))
            /\ spc' = "in_format"
       ELSE /\ spc' = "teardown"
            /\ UNCHANGED strace
    /\ UNCHANGED <<SignalFrame, sidx, heap, dicts, raw_results,
                   formatted_results, produced, sresult>>

Mutations == {"value", "nested", "delete"}

\* The formatter, while it runs, or whoever holds the Signal afterwards,
\* changes the dictionary formatted_results refers to: the value of the
\* object under its i-th key, the value of the object nested in that one,
\* or the key itself.
MutateFormatted(kind, i) ==
    /\ spc \in {"in_format", "done"}
    /\ formatted_results.dict # 0
    /\ i \in 1..Len(dicts[formatted_results.dict])
    /\ LET d == formatted_results.dict
           o == dicts[d][i].obj
       IN  CASE kind = "value" ->
                  /\ heap' = [heap EXCEPT ![o].val = "changed"]
                  /\ UNCHANGED dicts
             [] kind = "nested" ->
                  /\ heap[o].ref # 0
                  /\ heap' = [heap EXCEPT ![heap[o].ref].val = "changed"]
                  /\ UNCHANGED dicts
             [] kind = "delete" ->
                  /\ dicts' = [dicts EXCEPT ![d] = DictDel(@, i)]
                  /\ UNCHANGED heap
    /\ UNCHANGED <<SignalFrame, spc, sidx, raw_results, formatted_results,
                   produced, strace, sresult>>

\* self.formatted_results = <what the formatter returned>: the dictionary
\* it was given, or a value of its own making
FormatReturns(outcome, ret) ==
    /\ spc = "in_format"
    /\ IF outcome = "ok"
       THEN /\ SLog(SEvent("formatter", "-", "return", ret))
            /\ formatted_results' = IF ret = "argument"
                                    THEN formatted_results
                                    ELSE [dict |-> 0, value |-> ret]
            /\ spc' = "teardown"
            /\ UNCHANGED sresult
       ELSE /\ SLog(SEvent("formatter", "-", "raise", "-"))
            /\ SRaise("Exception")
            /\ UNCHANGED formatted_results
    /\ UNCHANGED <<SignalFrame, sidx, heap, dicts, raw_results, produced>>

FormatterReturnValues == {"argument", "text"}

\* if callable(teardown): teardown(self.signal_state)
TeardownCall ==
    /\ spc = "teardown"
    /\ IF callables.teardown
       THEN /\ SLog(SEvent("teardown", "-", "call", "-"))
            /\ spc' = "in_teardown"
            /\ UNCHANGED sresult
       ELSE /\ spc' = "done"
            /\ sresult' = "constructed"
            /\ UNCHANGED strace
    /\ UNCHANGED <<SignalFrame, sidx, heap, dicts, raw_results,
                   formatted_results, produced>>

TeardownReturns(outcome) ==
    /\ spc = "in_teardown"
    /\ IF outcome = "ok"
       THEN /\ SLog(SEvent("teardown", "-", "return", "-"))
            /\ spc' = "done"
            /\ sresult' = "constructed"
       ELSE /\ SLog(SEvent("teardown", "-", "raise", "-"))
            /\ SRaise("Exception")
    /\ UNCHANGED <<SignalFrame, sidx, heap, dicts, raw_results,
                   formatted_results, produced>>

InitSignal ==
    /\ NoLedger
    /\ InitExchange
    /\ opLimit = MaxOps
    /\ exchangeType = "coinbase_pro"
    /\ NoSignal

NextSignal ==
    \/ \E cs \in CallableChoices, syms \in SymbolLists : SignalNew(cs, syms)
    \/ SignalInit
    \/ \E o \in Outcomes : InitReturns(o)
    \/ CheckEvaluator
    \/ EvalNext
    \/ \E o \in Outcomes, c \in Classifications : EvalReturns(o, c)
    \/ CopyResults
    \/ FormatCall
    \/ \E k \in Mutations, i \in 1..MaxSymbols : MutateFormatted(k, i)
    \/ \E o \in Outcomes, r \in FormatterReturnValues : FormatReturns(o, r)
    \/ TeardownCall
    \/ \E o \in Outcomes : TeardownReturns(o)

SpecSignal == InitSignal /\ [][NextSignal]_vars

(***************************************************************************)
(* Signal properties.                                                      *)
(***************************************************************************)
Shape(e) == <<e.step, e.arg, e.phase>>

CallAndReturn(step) == <<<<step, "-", "call">>, <<step, "-", "return">>>>

\* the calls of a construction that nothing interrupts
FullPipeline ==
    (IF callables.init THEN CallAndReturn("init") ELSE <<>>)
    \o [i \in 1..(2 * Len(symbols)) |->
            <<"evaluator", symbols[(i + 1) \div 2],
              IF i % 2 = 1 THEN "call" ELSE "return">>]
    \o <<<<"copy", "-", "return">>>>
    \o (IF callables.formatter THEN CallAndReturn("formatter") ELSE <<>>)
    \o (IF callables.teardown THEN CallAndReturn("teardown") ELSE <<>>)

\* the evaluator returned for symbol s, and event i is the last time it did
LastReturnFor(s, i) ==
    /\ strace[i].step = "evaluator"
    /\ strace[i].phase = "return"
    /\ strace[i].arg = s
    /\ \A j \in (i + 1)..Len(strace) :
          ~(strace[j].step = "evaluator" /\ strace[j].phase = "return"
            /\ strace[j].arg = s)

\* C12: the calls a construction has made so far are the beginning of
\* init (if callable), the evaluator on each symbol in list order, the
\* copy, the formatter (if callable), teardown (if callable), each entered
\* once and left before the next is entered, the last one possibly left by
\* raising; a construction that ended normally made all of them; and while
\* the symbols are evaluated raw_results holds, under each symbol evaluated,
\* what the evaluator last returned for it.
PipelineInOrder ==
    spc # "none" =>
        /\ Len(strace) <= Len(FullPipeline)
        /\ \A i \in 1..Len(strace) :
              \/ Shape(strace[i]) = FullPipeline[i]
              \/ /\ i = Len(strace)
                 /\ strace[i].phase = "raise"
                 /\ FullPipeline[i] = <<strace[i].step, strace[i].arg, "return">>
        /\ spc = "done" => Len(strace) = Len(FullPipeline)
        /\ spc \in {"eval", "in_eval", "copy"} =>
              LET raw == dicts[raw_results]
              IN  /\ {raw[k].key : k \in 1..Len(raw)}
                        = {symbols[j] : j \in 1..sidx}
                  /\ \A k \in 1..Len(raw) :
                        \E i \in 1..Len(strace) :
                           /\ LastReturnFor(raw[k].key, i)
                           /\ heap[raw[k].obj].val = strace[i].ret

\* A Signal with all four callables and two different symbols was constructed.
PipelineDoneWitness ==
    /\ spc = "done"
    /\ sresult = "constructed"
    /\ callables = [init |-> TRUE, evaluator |-> TRUE, formatter |-> TRUE,
                    teardown |-> TRUE]
    /\ symbols = <<"A", "B">>
    /\ Len(strace) = 11

\* C13: with an evaluator that is not callable the evaluator, the formatter
\* and teardown are never called, raw_results stays empty and the
\* construction never ends normally; it ends with the TypeError after init,
\* if callable, was called once and returned (or with what init raised).
NonCallableEvaluatorFails ==
    (spc # "none" /\ ~callables.evaluator) =>
        /\ \A i \in 1..Len(strace) : strace[i].step = "init"
        /\ dicts[raw_results] = <<>>
        /\ sidx = 0
        /\ sresult # "constructed"
        /\ spc \in {"init", "in_init", "check", "raised"}
        /\ spc = "raised" =>
              \/ /\ sresult = "TypeError"
                 /\ strace = IF callables.init
                             THEN <<SEvent("init", "-", "call", "-"),
                                    SEvent("init", "-", "return", "-")>>
                             ELSE <<>>
              \/ /\ sresult = "Exception"
                 /\ callables.init
                 /\ strace = <<SEvent("init", "-", "call", "-"),
                               SEvent("init", "-", "raise", "-")>>

\* The TypeError was raised for a Signal with symbols and with init,
\* formatter and teardown callable.
NotCallableWitness ==
    /\ spc = "raised"
    /\ sresult = "TypeError"
    /\ ~callables.evaluator
    /\ callables.init /\ callables.formatter /\ callables.teardown
    /\ Len(symbols) = 2
    /\ Len(strace) = 2

AfterCopy == {"format", "in_format", "teardown", "in_teardown", "done"}

\* C14: raw_results is worth what the evaluator returned, at every nesting
\* depth, whatever was done to formatted_results; formatted_results is
\* never the dictionary raw_results is; and without a formatter the
\* construction leaves formatted_results equal to raw_results.
FormattedIsACopy ==
    spc # "none" =>
        /\ DeepValue(heap, dicts, raw_results) = produced
        /\ formatted_results.dict # raw_results
        /\ (spc \in AfterCopy /\ formatted_results.dict # 0) =>
              ObjectsOf(heap, dicts, formatted_results.dict)
                 \cap ObjectsOf(heap, dicts, raw_results) = {}
        /\ (~callables.formatter /\ spc \in {"format", "teardown", "in_teardown"}) =>
              DeepValue(heap, dicts, formatted_results.dict)
                 = DeepValue(heap, dicts, raw_results)

\* After the construction, formatted_results, which the formatter returned,
\* had a nested object changed and a key deleted.
FormattedMutatedWitness ==
    /\ spc = "done"
    /\ callables.formatter
    /\ formatted_results.dict # 0
    /\ Len(produced) = 2
    /\ Len(dicts[formatted_results.dict]) = 1
    /\ ValueOf(heap, dicts[formatted_results.dict][1].obj).notes = "changed"

\* C15: a callable that raised is the last one called: the construction
\* has ended with what it raised, and nothing was called after it.
RaiseAbortsPipeline ==
    \A i \in 1..Len(strace) :
        strace[i].phase = "raise" =>
            /\ i = Len(strace)
            /\ spc = "raised"
            /\ sresult = "Exception"

\* The evaluator raised on the first of two symbols of a Signal with a
\* formatter and a teardown.
EvaluatorRaisedWitness ==
    /\ spc = "raised"
    /\ Len(symbols) = 2
    /\ callables.formatter /\ callables.teardown
    /\ strace # <<>>
    /\ Shape(strace[Len(strace)]) = <<"evaluator", symbols[1], "raise">>
    /\ sidx = 0

(***************************************************************************)
(* Query properties.                                                       *)
(***************************************************************************)
QueryOps == {"get_model_state", "get_full_state"}

\* this step is made by caller t inside get_model_state or get_full_state:
\* it enters the method, or goes on from a statement of it
QueryStep(t) ==
    \/ /\ pc[t] = "idle"
       /\ nOps' = nOps + 1
       /\ frame'[t].op \in QueryOps
    \/ /\ pc[t] # "idle"
       /\ frame[t].op \in QueryOps
       /\ pc'[t] # pc[t]

\* C16: no step of get_model_state or get_full_state, whether the call
\* returns or raises, changes the registry, the running status of a model,
\* the balances of the local account or what the exchange holds.
QueriesAreReadOnly ==
    [][\A t \in Threads :
          QueryStep(t) =>
             /\ models' = models
             /\ running' = running
             /\ account' = account
             /\ assetState' = assetState
      ]_vars

\* get_full_state returned for a coin whose model is running, after
\* get_asset_state and get_state were called.
FullStateReturnedWitness ==
    \E t \in Threads :
        /\ frame[t].op = "get_full_state"
        /\ pc[t] = "idle"
        /\ result[t].status = "returned"
        /\ Len(trace[t]) = 2
        /\ HasKey(models, frame[t].coin)
        /\ running[GetItem(models, frame[t].coin).model]

(***************************************************************************)
(* Failure of append_model.                                                *)
(***************************************************************************)
\* C19 (as claimed): when append_model has raised, the registry holds for
\* its coin what it held before the call: no entry if the coin had none,
\* the entry of the append_model before it otherwise.
FailedAttachLeavesRegistry ==
    \A t \in Threads :
        (frame[t].op = "append_model" /\ pc[t] = "idle"
         /\ result[t].status = "raised")
            => LET coin == frame[t].coin
               IN  IF prevAttach[coin] = NoEntry
                   THEN ~HasKey(models, coin)
                   ELSE /\ HasKey(models, coin)
                        /\ GetItem(models, coin).model = prevAttach[coin].model
                        /\ GetItem(models, coin).args = prevAttach[coin].args

(***************************************************************************)
(* SpecOrder: append_model and start_models alone, so that a coin can be   *)
(* attached to again after another one and all of them started.            *)
(***************************************************************************)
InitOrder ==
    /\ NoLedger
    /\ InitExchange
    /\ opLimit = MaxOrderOps
    /\ exchangeType = "coinbase_pro"
    /\ NoSignal

NextOrder ==
    \/ \E m \in Models, c \in CoinIds, a \in ArgVals : AppendModel("main", m, c, a)
    \/ \E c \in CoinIds \cup {"None"} : StartModels("main", c)
    \/ Step("main")

SpecOrder == InitOrder /\ [][NextOrder]_vars

\* C20: the keys of the registry are, in order, the coins in the order of
\* their first append_model, whatever was attached to them again; and the
\* j-th model start_models() asks is the one attached last to the j-th of
\* those coins.
StartOrderIsFirstAttachOrder ==
    /\ [i \in 1..Len(models) |-> models[i].coin] = firstOrder
    /\ \A t \in Threads :
          IsBulkStart(frame[t]) =>
             LET tr == trace[t]
                 checks == CallsOf(tr, "is_running")
                 rank(i) == Cardinality({j \in checks : j <= i})
             IN  /\ \A i \in checks :
                       /\ rank(i) <= Len(firstOrder)
                       /\ tr[i].on = lastAttach[firstOrder[rank(i)]].model
                 /\ frame[t].idx > 0 => frame[t].iter = firstOrder[frame[t].idx]
                 /\ frame[t].idx = Cardinality(checks)

\* start_models() returned after it ran the models of two coins, the coin
\* attached first having been attached again with another model than
\* before.
ReattachedOrderWitness ==
    \E t \in Threads :
        /\ IsBulkStart(frame[t])
        /\ result[t].status = "returned"
        /\ Len(firstOrder) = 2
        /\ prevAttach[firstOrder[1]] # NoEntry
        /\ prevAttach[firstOrder[1]].model # lastAttach[firstOrder[1]].model
        /\ prevAttach[firstOrder[2]] = NoEntry
        /\ Cardinality(CallsOf(trace[t], "is_running")) = 2
        /\ trace[t][1].on = lastAttach[firstOrder[1]].model

(***************************************************************************)
(* SpecConc: two callers on one Exchange.  The methods take no lock, so    *)
(* the statements of a call of one caller interleave with those of a call  *)
(* of the other.  The models are left alone here: a model is running from  *)
(* the return of run on.                                                   *)
(***************************************************************************)
InitConc ==
    /\ NoLedger
    /\ InitExchange
    /\ opLimit = MaxOps
    /\ exchangeType = "coinbase_pro"
    /\ NoSignal

NextConc ==
    \E t \in Threads :
        \/ Call(t)
        \/ Step(t)

SpecConc == InitConc /\ [][NextConc]_vars

\* C17 (as claimed): run is called only on a model that is not running.
RunOnlyWhenNotRunning ==
    [][\A m \in Models : runCount'[m] > runCount[m] => ~running[m]]_vars

\* the calls caller u makes on the models in this step
NewEvents(u) ==
    IF pc[u] = "idle"
    THEN trace'[u]
    ELSE SubSeq(trace'[u], Len(trace[u]) + 1, Len(trace'[u]))

\* caller t is inside the first append_model of its model: the entry is
\* stored and setup has not returned
AttachInProgress(t) ==
    /\ frame[t].op = "append_model"
    /\ pc[t] # "idle"
    /\ attachCount[frame[t].model] = 1
    /\ setupCount[frame[t].model] = 0

\* this step is made by the other caller u while t stays where it is
StepBeside(t, u) ==
    /\ t # u
    /\ pc'[t] = pc[t]
    /\ trace'[t] = trace[t]
    /\ IF pc[u] = "idle" THEN nOps' = nOps + 1 ELSE pc[u] # "idle"

\* C18 (as claimed): while a caller is inside append_model, its setup not
\* yet returned, no call of the other caller makes run, get_state or
\* update_state be called on the model being attached.
NoHalfWrittenEntryObserved ==
    [][\A t \in Threads, u \in Threads :
          (AttachInProgress(t) /\ StepBeside(t, u)) =>
             \A i \in 1..Len(NewEvents(u)) :
                ~(/\ NewEvents(u)[i].call \in {"run", "get_state", "update_state"}
                  /\ NewEvents(u)[i].on = frame[t].model)
      ]_vars

=============================================================================
